---- MODULE Spec2Model ----
(***************************************************************************)
(* Model of the Image-Microservice (src/src/index.ts): the derivative      *)
(* cache (getOrCreateCacheFile), the precache walker (precacheTask,        *)
(* precacheFolder), the read and delete routes (genImageRoute) and the     *)
(* lexical path guard (isSubFile).                                         *)
(*                                                                         *)
(* Representation of strings.  A file name (one path segment) is a         *)
(* sequence of tokens; a token is either the dot character "." or a        *)
(* non-empty run of characters holding neither "." nor "/".  So the name   *)
(* logo.png is <<"logo", ".", "png">> and the name .. is <<".", ".">>.     *)
(* A path is a sequence of segments; absolute paths are written from the   *)
(* filesystem root, relative paths from the directory they are relative    *)
(* to (the empty sequence is the empty string '').                         *)
(***************************************************************************)
EXTENDS Integers, Sequences, FiniteSets, TLC

Dot == "."
DotDot == <<Dot, Dot>>
CurDir == <<Dot>>

\* A one-token name.
W(s) == <<s>>
\* A name with an extension: stem.ext
N(stem, ext) == <<stem, Dot, ext>>

RECURSIVE NormFrom(_, _, _)
\* path.normalize applied left to right: acc is the normalised prefix.
NormFrom(acc, rest, absolute) ==
    IF rest = <<>> THEN acc
    ELSE LET s == Head(rest)
             r == Tail(rest)
         IN  IF s = CurDir THEN NormFrom(acc, r, absolute)
             ELSE IF s = DotDot
                  THEN IF acc # <<>> /\ acc[Len(acc)] # DotDot
                       THEN NormFrom(SubSeq(acc, 1, Len(acc) - 1), r, absolute)
                       ELSE IF absolute
                            THEN NormFrom(acc, r, absolute)
                            ELSE NormFrom(Append(acc, s), r, absolute)
                  ELSE NormFrom(Append(acc, s), r, absolute)

\* path.join(a, ...segs) for an absolute first argument.
JoinAbs(base, segs) == NormFrom(<<>>, base \o segs, TRUE)

\* path.join of relative pieces; the result '.' is written <<CurDir>>.
JoinRel(segs) ==
    LET n == NormFrom(<<>>, segs, FALSE)
    IN  IF n = <<>> THEN <<CurDir>> ELSE n

RECURSIVE CommonLen(_, _)
\* Length of the longest common prefix of two absolute paths.
CommonLen(a, b) ==
    IF a = <<>> \/ b = <<>> \/ Head(a) # Head(b) THEN 0
    ELSE 1 + CommonLen(Tail(a), Tail(b))

\* path.relative(from, to) for absolute, normalised arguments.
Relative(from, to) ==
    LET c == CommonLen(from, to)
    IN  [i \in 1..(Len(from) - c) |-> DotDot] \o SubSeq(to, c + 1, Len(to))

\* path.basename of a relative path ('' for the empty path).
Basename(rel) == IF rel = <<>> THEN <<>> ELSE rel[Len(rel)]

\* path.dirname of a relative path: '.' when there is no directory part.
Dirname(rel) ==
    IF Len(rel) <= 1 THEN <<CurDir>> ELSE SubSeq(rel, 1, Len(rel) - 1)

\* Index of the last dot of a name, 0 when it has none.
LastDot(name) ==
    LET ds == {i \in 1..Len(name) : name[i] = Dot}
    IN  IF ds = {} THEN 0 ELSE CHOOSE i \in ds : \A j \in ds : j <= i

\* path.parse(base).name: the name without its extension.  There is no
\* extension when the name has no dot, when its last dot is its first
\* character, or when the name is '..'.
ParseName(base) ==
    LET d == LastDot(base)
    IN  IF d = 0 THEN base
        ELSE IF d = 1 THEN base
        ELSE IF base = DotDot THEN base
        ELSE SubSeq(base, 1, d - 1)

\* The relative path as the string the code tests with startsWith('..'):
\* it begins with two dots iff its first segment begins with two dot tokens.
StartsWithDotDot(rel) ==
    /\ rel # <<>>
    /\ Len(rel[1]) >= 2
    /\ rel[1][1] = Dot
    /\ rel[1][2] = Dot

\* path.isAbsolute of a path.relative result: never, on POSIX.
IsAbsoluteRel(rel) == FALSE

\* isSubFile(root, absPath)
isSubFile(root, absPath) ==
    LET relPath == Relative(root, absPath)
    IN  relPath # <<>> /\ ~StartsWithDotDot(relPath) /\ ~IsAbsoluteRel(relPath)

(***************************************************************************)
(* Configuration (lines 12-17) and the two collections (lines 213-214).    *)
(***************************************************************************)
Cwd == <<W("srv")>>
imagesFolder == Cwd \o <<W("images")>>
cacheFolder == Cwd \o <<W("cache")>>
Logos == <<W("Logos")>>
Screenshots == <<W("Screenshots")>>
Collections == {Logos, Screenshots}
cachePathOf(folders) == JoinAbs(cacheFolder, folders)
rootPathOf(folders) == JoinAbs(imagesFolder, folders)

validTypes == {"png", "jpg"}

\* process.env.API_KEY: undefined when the variable is not set.
KeyUnset == [defined |-> FALSE, val |-> ""]
KeySet(v) == [defined |-> TRUE, val |-> v]
ApiKeys == {KeyUnset, KeySet("s3cret")}

\* `${apiKey}`: template conversion of a string or of undefined.
TemplateString(k) == IF k.defined THEN k.val ELSE "undefined"
\* `Bearer ${apiKey}` as the words of the header value.
BearerOf(k) == <<"Bearer", TemplateString(k)>>

(***************************************************************************)
(* Files.  A file holds data and a flag telling whether all of the data    *)
(* has reached the file (a file opened for writing and not yet written in  *)
(* full holds a strict prefix of it).                                      *)
(***************************************************************************)
Image(of) == [fmt |-> "png", of |-> of]
Corrupt == [fmt |-> "bad", of |-> "x"]
NoData == [fmt |-> "none", of |-> ""]
File(data, full, readable) == [data |-> data, full |-> full, readable |-> readable]

NoResult == [state |-> "pending", success |-> FALSE, filePath |-> <<>>]
Resolved(success, filePath) ==
    [state |-> "resolved", success |-> success, filePath |-> filePath]
Rejected == [state |-> "rejected", success |-> FALSE, filePath |-> <<>>]

(***************************************************************************)
(* State.                                                                  *)
(***************************************************************************)
VARIABLES
    apiKey,   \* the shared delete token read at startup (line 17)
    files,    \* the regular files of the filesystem: path -> File
    dirs,     \* the directories of the filesystem
    faults,   \* write faults injected so far (open or write errors)
    nreq,     \* requests received so far
    pc,       \* position of each handler and of each precache task
    req,      \* the request a handler is serving
    resp,     \* the response a handler has sent for it
    call,     \* each process's getOrCreateCacheFile invocation
    walk,     \* each precache task's recursion stack and results
    guard     \* an evaluation of isSubFile: its arguments and its result

vars == <<apiKey, files, dirs, faults, nreq, pc, req, resp, call, walk, guard>>

Handlers == {"h1", "h2"}
Walkers == {"wLogos", "wScreenshots"}
Procs == Handlers \cup Walkers
\* precacheTask(['Logos']); precacheTask(['Screenshots'])
WalkFolders(w) == IF w = "wLogos" THEN Logos ELSE Screenshots

MaxRequests == 2
MaxFaults == 1

IsFile(p) == p \in DOMAIN files
IsDir(p) == p \in dirs
\* fs.promises.access(p, R_OK) succeeds
Readable(p) == IsDir(p) \/ (IsFile(p) /\ files[p].readable)
Prefixes(p) == {SubSeq(p, 1, n) : n \in 0..Len(p)}
Parent(p) == SubSeq(p, 1, Len(p) - 1)
WriteFile(fs, p, f) == [q \in DOMAIN fs \cup {p} |-> IF q = p THEN f ELSE fs[q]]
Unlink(fs, p) == [q \in DOMAIN fs \ {p} |-> fs[q]]

\* What a reader of path p sees: "none", "dir", "part" or "full".
Seen(p) ==
    IF IsDir(p) THEN "dir"
    ELSE IF ~IsFile(p) THEN "none"
    ELSE IF files[p].full THEN "full" ELSE "part"

NoReq == [method |-> "none", coll |-> <<>>, f1 |-> <<>>, f2 |-> <<>>,
          filename |-> <<>>, query |-> <<>>, auth |-> <<>>]
NoResp == [status |-> 0, body |-> "", file |-> <<>>, saw |-> "none", data |-> NoData]
Response(status, body) ==
    [status |-> status, body |-> body, file |-> <<>>, saw |-> "none", data |-> NoData]

\* A getOrCreateCacheFile invocation: its arguments, the encoded buffer, its
\* promise, and a record of what it did (hit: what the cache file held when
\* access() accepted it; work: the steps of creation it started; orphan: its
\* open file was unlinked, so its write no longer reaches the path).
NoCall == [cachePath |-> <<>>, filePath |-> <<>>, relPath |-> <<>>, type |-> "",
           buffer |-> NoData, result |-> NoResult, hit |-> "none", work |-> {},
           orphan |-> FALSE]

\* A cache path that drops the sub-directories of the source.
DestPath_Flat(cachePath, relPath, type) ==
    JoinAbs(cachePath, <<ParseName(Basename(relPath)) \o <<Dot, type>>>>)

\* Lines 97-99: the cache path of (relPath, type).
DestPath(cachePath, relPath, type) ==
    LET newFileName == ParseName(Basename(relPath)) \o <<Dot, type>>
        newRelPath == JoinRel(Dirname(relPath) \o <<newFileName>>)
    IN  JoinAbs(cachePath, newRelPath)

destPath(p) == DestPath(call[p].cachePath, call[p].relPath, call[p].type)

\* A pass-through test that compares with the wrong format name.
IsPassThrough_WrongFormat(type) == type = "jpg"

\* Line 102: the pass-through test.
IsPassThrough(type) == type = "png"

\* sharp(filePath).toFormat(type).toBuffer: the re-encoded bytes, or an error.
CanDecode(p) ==
    /\ IsFile(p) /\ files[p].readable /\ files[p].full
    /\ files[p].data.fmt \in {"png", "jpg"}
Encode(p, type) == [fmt |-> type, of |-> files[p].data.of]

\* Where a process continues when its invocation settles.
RetPc(p) == IF p \in Handlers THEN "respond" ELSE "wret"

\* parseOptionQuery (lines 240-251): query is <<>> when type is absent, else
\* <<value>>.  An empty value is falsy.
QueryTruthy(q) == q # <<>> /\ q[1] # ""
\* A validation that lets every format through.
ParseThrows_Never(q) == FALSE
\* Line 246: the format is present and not a valid type.
ParseThrows(q) == QueryTruthy(q) /\ q[1] \notin validTypes
ParseOptionQuery(q) == IF QueryTruthy(q) THEN q[1] ELSE "png"

(***************************************************************************)
(* getOrCreateCacheFile (lines 95-151), one action per asynchronous step.  *)
(***************************************************************************)
\* Lines 95-110: the synchronous entry.  A pass-through invocation settles
\* at once; any other goes on to probe the cache file.
Invoke(cachePath, filePath, relPath, type) ==
    [NoCall EXCEPT !.cachePath = cachePath, !.filePath = filePath,
                   !.relPath = relPath, !.type = type,
                   !.result = IF IsPassThrough(type)
                              THEN Resolved(TRUE, filePath) ELSE NoResult]
InvokePc(p, type) == IF IsPassThrough(type) THEN RetPc(p) ELSE "accessDest"

\* A cache probe that looks for the source's own name under the cache root,
\* without the extension swap.
CacheHit_NoExtensionSwap(p) == Readable(JoinAbs(call[p].cachePath, call[p].relPath))

\* Line 110: fs.promises.access(destPath, R_OK) succeeds.
CacheHit(p) == Readable(destPath(p))

\* Lines 110-117: a readable cache file is a hit.
AccessDest(p) ==
    /\ pc[p] = "accessDest"
    /\ IF CacheHit(p)
       THEN /\ call' = [call EXCEPT ![p].result = Resolved(TRUE, destPath(p)),
                                    ![p].hit = Seen(destPath(p))]
            /\ pc' = [pc EXCEPT ![p] = RetPc(p)]
       ELSE /\ pc' = [pc EXCEPT ![p] = "accessSrc"]
            /\ UNCHANGED call
    /\ UNCHANGED <<apiKey, guard, files, dirs, faults, nreq, req, resp, walk>>

\* Lines 119-127: a source that is missing or unreadable resolves with
\* success false.
\* A creation path that does not check the source first.
SourceExists_Unchecked(p) == TRUE

\* Lines 119-121: the source can be read.
SourceExists(p) == Readable(call[p].filePath)

AccessSrc(p) ==
    /\ pc[p] = "accessSrc"
    /\ IF SourceExists(p)
       THEN /\ pc' = [pc EXCEPT ![p] = "mkdir"]
            /\ UNCHANGED call
       ELSE /\ call' = [call EXCEPT ![p].result = Resolved(FALSE, <<>>)]
            /\ pc' = [pc EXCEPT ![p] = RetPc(p)]
    /\ UNCHANGED <<apiKey, guard, files, dirs, faults, nreq, req, resp, walk>>

\* mkdir(dir, {recursive: true}) fails when a file stands on the way.
MkdirFails(dir) == \E q \in Prefixes(dir) : IsFile(q)

\* Line 129: create the directory of the cache file.
Mkdir(p) ==
    /\ pc[p] = "mkdir"
    /\ LET dir == Parent(destPath(p))
       IN  IF MkdirFails(dir)
           THEN /\ call' = [call EXCEPT ![p].result = Rejected,
                                        ![p].work = @ \cup {"mkdir"}]
                /\ pc' = [pc EXCEPT ![p] = RetPc(p)]
                /\ UNCHANGED dirs
           ELSE /\ dirs' = dirs \cup Prefixes(dir)
                /\ call' = [call EXCEPT ![p].work = @ \cup {"mkdir"}]
                /\ pc' = [pc EXCEPT ![p] = "encode"]
    /\ UNCHANGED <<apiKey, guard, files, faults, nreq, req, resp, walk>>

\* Lines 131-136: sharp re-encodes the source into a buffer, or fails.
EncodeStep(p) ==
    /\ pc[p] = "encode"
    /\ IF CanDecode(call[p].filePath)
       THEN /\ call' = [call EXCEPT ![p].buffer = Encode(call[p].filePath, call[p].type),
                                    ![p].work = @ \cup {"encode"}]
            /\ pc' = [pc EXCEPT ![p] = "open"]
       ELSE /\ call' = [call EXCEPT ![p].result = Rejected,
                                    ![p].work = @ \cup {"encode"}]
            /\ pc' = [pc EXCEPT ![p] = RetPc(p)]
    /\ UNCHANGED <<apiKey, guard, files, dirs, faults, nreq, req, resp, walk>>

\* What fs.writeFile leaves at the path once it has opened it (flag 'w':
\* create or truncate) and before its data is written.
Opened(buffer) == File(buffer, FALSE, TRUE)
\* A write that stops short of the end of the buffer.
Written_Short(buffer) == File(buffer, FALSE, TRUE)
\* What fs.writeFile leaves at the path once all its data is written.
Written(buffer) == File(buffer, TRUE, TRUE)

\* Line 137, first half: fs.writeFile opens the cache file, or fails to.
WriteOpen(p) ==
    /\ pc[p] = "open"
    /\ \/ /\ ~IsDir(destPath(p))
          /\ files' = WriteFile(files, destPath(p), Opened(call[p].buffer))
          /\ call' = [call EXCEPT ![p].work = @ \cup {"open"}, ![p].orphan = FALSE]
          /\ pc' = [pc EXCEPT ![p] = "write"]
          /\ UNCHANGED faults
       \/ /\ IsDir(destPath(p)) \/ faults < MaxFaults
          /\ faults' = IF IsDir(destPath(p)) THEN faults ELSE faults + 1
          /\ call' = [call EXCEPT ![p].result = Rejected]
          /\ pc' = [pc EXCEPT ![p] = RetPc(p)]
          /\ UNCHANGED files
    /\ UNCHANGED <<apiKey, guard, dirs, nreq, req, resp, walk>>

\* Lines 137-146, second half: the data is written and the promise resolves,
\* or the write fails (no cleanup follows) and the promise rejects.
WriteData(p) ==
    /\ pc[p] = "write"
    /\ \/ /\ files' = IF call[p].orphan THEN files
                      ELSE WriteFile(files, destPath(p), Written(call[p].buffer))
          /\ call' = [call EXCEPT ![p].result = Resolved(TRUE, destPath(p)),
                                  ![p].work = @ \cup {"write"}]
          /\ UNCHANGED faults
       \/ /\ faults < MaxFaults
          /\ faults' = faults + 1
          /\ call' = [call EXCEPT ![p].result = Rejected]
          /\ UNCHANGED files
    /\ pc' = [pc EXCEPT ![p] = RetPc(p)]
    /\ UNCHANGED <<apiKey, guard, dirs, nreq, req, resp, walk>>

(***************************************************************************)
(* The read route (lines 158-179).                                         *)
(***************************************************************************)
\* Line 161: the containment test of the read route.
ReadGuard(rootPath, filePath) == isSubFile(imagesFolder, filePath)

\* The handler is an async function: when parseOptionQuery throws, its
\* promise rejects.  Express 4 ignores the promise (the request is never
\* answered); Express 5 hands the error to the default error handler (500).
ThrowOutcomes == {NoResp, Response(500, "framework")}

\* Lines 158-165: build the path, test containment, parse the options and
\* enter getOrCreateCacheFile.
Get(h, r) ==
    /\ pc[h] = "idle"
    /\ r.method = "GET"
    /\ nreq' = nreq + 1
    /\ req' = [req EXCEPT ![h] = r]
    /\ LET rootPath == rootPathOf(r.coll)
           cachePath == cachePathOf(r.coll)
           filePath == JoinAbs(rootPath, <<r.f1, r.f2, r.filename>>)
           relPath == Relative(rootPath, filePath)
       IN  IF ReadGuard(rootPath, filePath)
           THEN IF ParseThrows(r.query)
                THEN /\ \E out \in ThrowOutcomes : resp' = [resp EXCEPT ![h] = out]
                     /\ call' = [call EXCEPT ![h] = NoCall]
                     /\ pc' = pc
                ELSE /\ resp' = [resp EXCEPT ![h] = NoResp]
                     /\ call' = [call EXCEPT ![h] =
                            Invoke(cachePath, filePath, relPath, ParseOptionQuery(r.query))]
                     /\ pc' = [pc EXCEPT ![h] = InvokePc(h, ParseOptionQuery(r.query))]
           ELSE /\ resp' = [resp EXCEPT ![h] = NoResp]
                /\ call' = [call EXCEPT ![h] = NoCall]
                /\ pc' = pc
    /\ UNCHANGED <<apiKey, guard, files, dirs, faults, walk>>

\* res.sendFile(path): the file's bytes with status 200; a missing path or a
\* directory ends in the framework's 404, an unreadable file in its 500.
SendFile(path) ==
    IF IsFile(path) /\ files[path].readable
    THEN [status |-> 200, body |-> "file", file |-> path, saw |-> Seen(path),
          data |-> files[path].data]
    ELSE IF IsFile(path)
         THEN [Response(500, "framework") EXCEPT !.file = path, !.saw = Seen(path)]
         ELSE [Response(404, "framework") EXCEPT !.file = path, !.saw = Seen(path)]

\* Lines 166-176: map the outcome to the response.
Respond(h) ==
    /\ pc[h] = "respond"
    /\ resp' = [resp EXCEPT ![h] =
                 IF call[h].result.state = "rejected"
                 THEN Response(500, "Error processing image")
                 ELSE IF call[h].result.success
                      THEN SendFile(call[h].result.filePath)
                      ELSE Response(404, "Not Found")]
    /\ pc' = [pc EXCEPT ![h] = "idle"]
    /\ UNCHANGED <<apiKey, guard, files, dirs, faults, nreq, req, call, walk>>

(***************************************************************************)
(* The delete route (lines 181-210): one synchronous step.                 *)
(***************************************************************************)
\* Line 184: the request is authorized.
Authorized(authHeader, key) == authHeader # <<>> /\ authHeader = BearerOf(key)

\* A containment test against the whole cache folder instead of the
\* collection's cache root.
DeleteGuard_CacheFolder(cachePath, dest) == isSubFile(cacheFolder, dest)

\* Line 196: the containment test of the delete route.
DeleteGuard(cachePath, dest) == isSubFile(cachePath, dest)

\* Lines 189-193: the cache path the delete route computes.
DeleteDest(r) ==
    LET rootPath == rootPathOf(r.coll)
        filePath == JoinAbs(rootPath, <<r.f1, r.f2, r.filename>>)
        relPath == Relative(rootPath, filePath)
    IN  DestPath(cachePathOf(r.coll), relPath, "jpg")

\* The status the delete route answers with.
DeleteStatus(r) ==
    IF ~Authorized(r.auth, apiKey) THEN 401
    ELSE IF ~DeleteGuard(cachePathOf(r.coll), DeleteDest(r)) THEN 400
    ELSE IF IsDir(DeleteDest(r)) THEN 500 \* unlinkSync throws on a directory
    ELSE 200

\* Lines 198-201: the file unlinkSync removes, if any.
Unlinks(r) == DeleteStatus(r) = 200 /\ IsFile(DeleteDest(r))

Delete(h, r) ==
    /\ pc[h] = "idle"
    /\ r.method = "DELETE"
    /\ nreq' = nreq + 1
    /\ req' = [req EXCEPT ![h] = r]
    /\ LET dest == DeleteDest(r)
           status == DeleteStatus(r)
       IN  /\ resp' = [resp EXCEPT ![h] =
                 IF status = 401 THEN Response(401, "Unauthorized")
                 ELSE IF status = 400 THEN Response(400, "File in bad directory")
                 ELSE IF status = 500 THEN Response(500, "Error deleting file")
                 ELSE [Response(200, "File deleted successfully") EXCEPT
                          !.file = dest, !.saw = Seen(dest)]]
           /\ files' = IF Unlinks(r) THEN Unlink(files, dest) ELSE files
           /\ call' = [p \in Procs |->
                 IF p = h THEN NoCall
                 ELSE IF Unlinks(r) /\ pc[p] = "write" /\ destPath(p) = dest
                      THEN [call[p] EXCEPT !.orphan = TRUE]
                      ELSE call[p]]
    /\ UNCHANGED <<apiKey, guard, dirs, faults, pc, walk>>

(***************************************************************************)
(* The precache task (lines 38-88).  The recursion of precacheFolder is    *)
(* kept as a stack of frames, each with its folder, the entries readdir    *)
(* returned that are still to be visited, and its own badPaths.            *)
(***************************************************************************)
\* visited records, for each file the task has handled, the outcome of its
\* getOrCreateCacheFile invocation and the cache path it was for.
NoWalk == [stack |-> <<>>, next |-> <<>>, badPaths |-> <<>>, log |-> <<>>,
           logged |-> FALSE, visited |-> {}]

\* The outcome of a settled invocation, in the words of the design.
Outcome(c) ==
    IF c.result.state = "rejected" THEN "processing-error"
    ELSE IF c.result.success THEN "success" ELSE "not-found"

\* readdir(folder, {withFileTypes: true}): the entries of a directory.
Readdir(folder) ==
    {[path |-> q, isDirectory |-> IsDir(q)] :
        q \in {x \in (DOMAIN files) \cup dirs : x # <<>> /\ Parent(x) = folder}}

\* Lines 41-44: create the collection's cache directory.
WStart(w) ==
    /\ pc[w] = "wstart"
    /\ LET cachePath == cachePathOf(WalkFolders(w))
       IN  IF MkdirFails(cachePath)
           THEN /\ pc' = [pc EXCEPT ![w] = "wcrashed"]
                /\ UNCHANGED <<dirs, walk>>
           ELSE /\ dirs' = dirs \cup Prefixes(cachePath)
                /\ walk' = [walk EXCEPT ![w].next = rootPathOf(WalkFolders(w))]
                /\ pc' = [pc EXCEPT ![w] = "wreaddir"]
    /\ UNCHANGED <<apiKey, guard, files, faults, nreq, req, resp, call>>

\* Lines 67-68: enter precacheFolder(folder) and read the directory.  readdir
\* fails when the folder is not a directory, and may fail on one that is (no
\* permission, an I/O error); the failure rejects precacheFolder, and nothing
\* up the chain catches it (line 73 has a then without a catch, lines 221-222
\* drop the promise of precacheTask).
WReaddir(w) ==
    /\ pc[w] = "wreaddir"
    /\ \/ /\ IsDir(walk[w].next)
          /\ walk' = [walk EXCEPT ![w].stack =
                Append(@, [folder |-> walk[w].next,
                           todo |-> Readdir(walk[w].next),
                           badPaths |-> <<>>])]
          /\ pc' = [pc EXCEPT ![w] = "wloop"]
          /\ UNCHANGED faults
       \/ /\ ~IsDir(walk[w].next) \/ faults < MaxFaults
          /\ faults' = IF IsDir(walk[w].next) THEN faults + 1 ELSE faults
          /\ pc' = [pc EXCEPT ![w] = "wcrashed"]
          /\ UNCHANGED walk
    /\ UNCHANGED <<apiKey, guard, files, dirs, nreq, req, resp, call>>

\* Lines 69-81: take the next entry: recurse into a directory, or invoke
\* getOrCreateCacheFile for a file with the fixed type jpg.
WVisit(w) ==
    /\ pc[w] = "wloop"
    /\ LET n == Len(walk[w].stack)
           top == walk[w].stack[n]
           rootPath == rootPathOf(WalkFolders(w))
       IN  /\ top.todo # {}
           /\ \E file \in top.todo :
                /\ IF file.isDirectory
                   THEN /\ walk' = [walk EXCEPT ![w].stack[n].todo = @ \ {file},
                                                ![w].next = file.path]
                        /\ pc' = [pc EXCEPT ![w] = "wreaddir"]
                        /\ UNCHANGED call
                   ELSE /\ walk' = [walk EXCEPT ![w].stack[n].todo = @ \ {file}]
                        /\ call' = [call EXCEPT ![w] =
                             Invoke(cachePathOf(WalkFolders(w)), file.path,
                                    Relative(rootPath, file.path), "jpg")]
                        /\ pc' = [pc EXCEPT ![w] = InvokePc(w, "jpg")]
    /\ UNCHANGED <<apiKey, guard, files, dirs, faults, nreq, req, resp>>

\* Lines 82-84: what the .catch of the walker adds to badPaths for a
\* settled invocation.
BadPathsAfter(badPaths, c) ==
    IF c.result.state = "rejected" THEN Append(badPaths, c.filePath) ELSE badPaths

\* Lines 81-85: the invocation has settled.
WRet(w) ==
    /\ pc[w] = "wret"
    /\ LET n == Len(walk[w].stack)
       IN  walk' = [walk EXCEPT ![w].stack[n].badPaths = BadPathsAfter(@, call[w]),
                                ![w].visited = @ \cup
                                   {[path |-> call[w].filePath,
                                     outcome |-> Outcome(call[w]),
                                     dest |-> destPath(w)]}]
    /\ pc' = [pc EXCEPT ![w] = "wloop"]
    /\ UNCHANGED <<apiKey, guard, files, dirs, faults, nreq, req, resp, call>>

\* Lines 73-76 and 87: precacheFolder returns its badPaths; the caller
\* appends them to its own, and the outermost caller is precacheTask.
WReturn(w) ==
    /\ pc[w] = "wloop"
    /\ LET n == Len(walk[w].stack)
           top == walk[w].stack[n]
       IN  /\ top.todo = {}
           /\ IF n = 1
              THEN /\ walk' = [walk EXCEPT ![w].stack = <<>>,
                                           ![w].badPaths = top.badPaths]
                   /\ pc' = [pc EXCEPT ![w] = "wfinish"]
              ELSE /\ walk' = [walk EXCEPT ![w].stack =
                         [SubSeq(@, 1, n - 1) EXCEPT ![n - 1].badPaths = @ \o top.badPaths]]
                   /\ pc' = pc
    /\ UNCHANGED <<apiKey, guard, files, dirs, faults, nreq, req, resp, call>>

\* Lines 48-52: a non-empty failure list is saved to the log file.
WFinish(w) ==
    /\ pc[w] = "wfinish"
    /\ walk' = [walk EXCEPT ![w].log = walk[w].badPaths,
                            ![w].logged = Len(walk[w].badPaths) > 0]
    /\ pc' = [pc EXCEPT ![w] = "wdone"]
    /\ UNCHANGED <<apiKey, guard, files, dirs, faults, nreq, req, resp, call>>


(***************************************************************************)
(* Requests.  Each of the three route parameters is one path segment.      *)
(***************************************************************************)
Request(method, coll, f1, f2, filename, query, auth) ==
    [method |-> method, coll |-> coll, f1 |-> f1, f2 |-> f2,
     filename |-> filename, query |-> query, auth |-> auth]

A == W("a")
B == W("b")
LogoPng == N("logo", "png")
LogoJpg == N("logo", "jpg")
IconPng == N("icon", "png")
\* A name that begins with two dots and is not the parent marker: ..foo
DotDotFoo == <<Dot, Dot, "foo">>

Queries == {<<>>, <<"">>, <<"png">>, <<"jpg">>, <<"gif">>}
Auths == {<<>>, <<"Bearer", "s3cret">>, <<"Bearer", "wrong">>,
          <<"Bearer", "undefined">>, <<"s3cret">>}
Segments == {A, B, DotDot, CurDir, LogoPng, Screenshots[1], DotDotFoo}

\* Every request of the two routes over the segments above.
RouteRequests ==
    {Request("GET", c, f1, f2, fn, q, <<>>) :
        c \in Collections, f1 \in Segments, f2 \in Segments, fn \in Segments,
        q \in Queries}
    \cup
    {Request("DELETE", c, f1, f2, fn, <<>>, au) :
        c \in Collections, f1 \in Segments, f2 \in Segments, fn \in Segments,
        au \in Auths}

\* The requests of the concurrent specification: reads and authorized
\* deletes of one image of the Logos collection.
CacheRequests ==
    {Request("GET", Logos, A, B, LogoPng, q, <<>>) : q \in {<<>>, <<"jpg">>}}
    \cup {Request("GET", Logos, A, B, LogoJpg, <<"jpg">>, <<>>)}
    \cup {Request("DELETE", Logos, A, B, LogoPng, <<>>, <<"Bearer", "s3cret">>)}

(***************************************************************************)
(* Initial states.                                                         *)
(***************************************************************************)
SrcA == rootPathOf(Logos) \o <<A, B, LogoPng>>
SrcB == rootPathOf(Logos) \o <<A, B, IconPng>>
SourceStates == {"absent", "good", "corrupt", "unreadable"}

SourceFile(state, of) ==
    IF state = "good" THEN File(Image(of), TRUE, TRUE)
    ELSE IF state = "corrupt" THEN File(Corrupt, TRUE, TRUE)
    ELSE File(Image(of), TRUE, FALSE)

\* The directories present at startup: the source trees, and the cache
\* directories genImageRoute creates (line 156).
StartDirs ==
    UNION {Prefixes(d) : d \in {rootPathOf(Logos) \o <<A, B>>, rootPathOf(Screenshots),
                                cachePathOf(Logos), cachePathOf(Screenshots)}}

\* No evaluation of isSubFile is being looked at on its own.
NoGuard == [root |-> <<>>, absPath |-> <<>>, returned |-> FALSE, result |-> FALSE]

InitProcs ==
    /\ faults = 0
    /\ nreq = 0
    /\ pc = [p \in Procs |-> IF p \in Handlers THEN "idle" ELSE "wstart"]
    /\ req = [h \in Handlers |-> NoReq]
    /\ resp = [h \in Handlers |-> NoResp]
    /\ call = [p \in Procs |-> NoCall]
    /\ walk = [w \in Walkers |-> NoWalk]
    /\ guard = NoGuard

\* The files of a source tree: each path of paths in one of SourceStates.
SourceTree(paths, state) ==
    [q \in {x \in paths : state[x] # "absent"} |->
        SourceFile(state[q], q[Len(q)][1])]

Init ==
    /\ apiKey = KeySet("s3cret")
    /\ \E state \in [{SrcA} -> SourceStates] : files = SourceTree({SrcA}, state)
    /\ dirs = StartDirs
    /\ InitProcs

GetOrCreateStep(p) ==
    \/ AccessDest(p)
    \/ AccessSrc(p)
    \/ Mkdir(p)
    \/ EncodeStep(p)
    \/ WriteOpen(p)
    \/ WriteData(p)

WalkerStep(w) ==
    \/ WStart(w)
    \/ WReaddir(w)
    \/ WVisit(w)
    \/ WRet(w)
    \/ WReturn(w)
    \/ WFinish(w)

\* Handlers are interchangeable: a request is taken by the first idle one.
FirstIdle(h) == pc[h] = "idle" /\ (h = "h2" => pc["h1"] # "idle")

ReceiveGet(h) ==
    /\ nreq < MaxRequests
    /\ FirstIdle(h)
    /\ \E r \in CacheRequests : Get(h, r)

ReceiveDelete(h) ==
    /\ nreq < MaxRequests
    /\ FirstIdle(h)
    /\ \E r \in CacheRequests : Delete(h, r)

\* Request traffic on one image of Logos, concurrent with the Logos
\* precache task.
Next ==
    \/ \E h \in Handlers : ReceiveGet(h)
    \/ \E h \in Handlers : ReceiveDelete(h)
    \/ \E h \in Handlers : Respond(h)
    \/ \E p \in Handlers \cup {"wLogos"} : GetOrCreateStep(p)
    \/ WalkerStep("wLogos")

Spec == Init /\ [][Next]_vars

(***************************************************************************)
(* Requests one after the other, with nothing else running: each request   *)
(* is received when the one before it has been answered.  The two handlers *)
(* take turns, so the handler that is not serving the latest request still *)
(* holds the request before it.                                            *)
(***************************************************************************)
Turn(h) == (h = "h1") <=> (nreq % 2 = 0)
Other(h) == IF h = "h1" THEN "h2" ELSE "h1"
AllIdle == \A h \in Handlers : pc[h] = "idle"

SeqGet(h) ==
    /\ nreq < MaxRequests
    /\ AllIdle /\ Turn(h)
    /\ \E r \in CacheRequests : Get(h, r)

SeqDelete(h) ==
    /\ nreq < MaxRequests
    /\ AllIdle /\ Turn(h)
    /\ \E r \in CacheRequests : Delete(h, r)

NextSeq ==
    \/ \E h \in Handlers : SeqGet(h)
    \/ \E h \in Handlers : SeqDelete(h)
    \/ \E h \in Handlers : Respond(h)
    \/ \E h \in Handlers : GetOrCreateStep(h)

SpecSeq == Init /\ [][NextSeq]_vars

(***************************************************************************)
(* One request of either route, over every choice of the path segments,    *)
(* the format option, the Authorization header and the configured token.   *)
(***************************************************************************)
ShotSrc == rootPathOf(Screenshots) \o <<LogoPng>>
StraySrc == imagesFolder \o <<LogoPng>>
RouteSources == {SrcA, ShotSrc, StraySrc}
\* Derivatives an earlier run may have left in the cache.
RouteCache ==
    [q \in {cachePathOf(Logos) \o <<A, B, LogoJpg>>, cachePathOf(Screenshots) \o <<LogoJpg>>}
        |-> File([fmt |-> "jpg", of |-> "logo"], TRUE, TRUE)]

InitRoute ==
    /\ apiKey \in ApiKeys
    /\ \E sa \in {"good", "unreadable"}, cached \in BOOLEAN :
         LET tree == SourceTree(RouteSources,
                        [x \in RouteSources |-> IF x = SrcA THEN sa ELSE "good"])
         IN  /\ files = [q \in DOMAIN tree \cup (IF cached THEN DOMAIN RouteCache ELSE {}) |->
                            IF q \in DOMAIN tree THEN tree[q] ELSE RouteCache[q]]
             /\ dirs = StartDirs \cup
                       (IF cached THEN Prefixes(cachePathOf(Logos) \o <<A, B>>) ELSE {})
    /\ InitProcs

RouteGet == nreq = 0 /\ \E r \in RouteRequests : Get("h1", r)
RouteDelete == nreq = 0 /\ \E r \in RouteRequests : Delete("h1", r)

NextRoute ==
    \/ RouteGet
    \/ RouteDelete
    \/ Respond("h1")
    \/ GetOrCreateStep("h1")

SpecRoute == InitRoute /\ [][NextRoute]_vars

(***************************************************************************)
(* The two precache tasks alone, over trees whose files may be good,       *)
(* corrupt, unreadable or absent.                                          *)
(***************************************************************************)
InitPrecache ==
    /\ apiKey = KeySet("s3cret")
    /\ \E state \in [{SrcA, SrcB, ShotSrc} -> SourceStates] :
         /\ state[ShotSrc] \in {"good", "corrupt"}
         /\ files = SourceTree({SrcA, SrcB, ShotSrc}, state)
    /\ dirs = StartDirs
    /\ InitProcs

NextPrecache ==
    \/ \E w \in Walkers : WalkerStep(w)
    \/ \E w \in Walkers : GetOrCreateStep(w)

SpecPrecache == InitPrecache /\ [][NextPrecache]_vars

(***************************************************************************)
(* Properties.                                                             *)
(***************************************************************************)
\* p is a proper descendant of root, read off the two paths themselves.
StrictDescendant(root, p) ==
    Len(p) > Len(root) /\ SubSeq(p, 1, Len(root)) = root

\* The invocation of process p has settled and p has not yet gone on.
Settled(p) == pc[p] = RetPc(p)
\* Handler h has finished handling a request of the given method.
Handled(h, method) == pc[h] = "idle" /\ req[h].method = method
\* Handler h's request got as far as invoking getOrCreateCacheFile.
Invoked(h) == call[h].cachePath # <<>>

\* C1: no getOrCreateCacheFile invocation returns a cache hit on a cache file
\* that is only partly written, and no response streams such a file.
C1_NoPartialFileObserved ==
    /\ \A p \in Procs : call[p].hit # "part"
    /\ \A h \in Handlers :
         (req[h].method = "GET" /\ resp[h].status = 200
            /\ StrictDescendant(cacheFolder, resp[h].file))
            => resp[h].saw = "full"

\* C2: when an invocation ends with a processing-error, nothing is left at
\* its cache path that a later invocation would accept as a cache hit.
C2_FailureLeavesCacheMiss ==
    \A p \in Procs :
        (Settled(p) /\ call[p].result.state = "rejected") => ~CacheHit(p)

\* The handler that serves the latest request of a sequential run.
Latest(h) == (h = "h1") <=> (nreq % 2 = 1)
\* In a sequential run, the two latest requests are the same read request
\* and both invoked getOrCreateCacheFile: the other handler served the first
\* and has answered it, h serves the second.
TwiceInSequence(h) ==
    /\ nreq >= 2 /\ Latest(h) /\ pc[Other(h)] = "idle"
    /\ req[h].method = "GET" /\ req[Other(h)] = req[h]
    /\ Invoked(h) /\ Invoked(Other(h))
\* The second call starts none of the steps of creation (mkdir, re-encode,
\* write) and, once answered, has returned what the first returned, with the
\* same bytes served.
SecondRepeatsFirst(h) ==
    /\ call[h].work = {}
    /\ pc[h] = "idle" =>
          /\ call[h].result = call[Other(h)].result
          /\ resp[h] = resp[Other(h)]

\* C3 as claimed: for every (source, format), two calls in sequence return
\* the same servable bytes and the second performs no re-encode and no write.
C3_IdempotentForEverySource ==
    \A h \in Handlers : TwiceInSequence(h) => SecondRepeatsFirst(h)

\* C3 amended: the same, whenever the first call did not end with a
\* processing-error.
C3_IdempotentAfterNoError ==
    \A h \in Handlers :
        (TwiceInSequence(h) /\ call[Other(h)].result.state # "rejected")
            => SecondRepeatsFirst(h)

\* The first call created the derivative and the second was answered from it.
C3_Witness ==
    \E h \in Handlers :
        /\ TwiceInSequence(h) /\ pc[h] = "idle"
        /\ "write" \in call[Other(h)].work
        /\ call[h].hit = "full"
        /\ resp[h].status = 200

CachePcs == {"accessDest", "accessSrc", "mkdir", "encode", "open", "write"}

\* C4: an invocation with the pass-through format resolves with success and
\* the source path itself, never enters the steps that probe or create the
\* cache file, and no step of it changes a file or a directory.
C4_PassThroughLaw ==
    [][\A h \in Handlers :
         call'[h].type = "png" =>
            /\ call'[h].result = Resolved(TRUE, call'[h].filePath)
            /\ call'[h].work = {} /\ call'[h].hit = "none"
            /\ pc'[h] \notin CachePcs
            /\ files' = files /\ dirs' = dirs]_vars

\* A pass-through read of a source that does not exist has settled.
C4_Witness ==
    \E h \in Handlers :
        /\ call[h].type = "png" /\ pc[h] = "respond"
        /\ ~IsFile(call[h].filePath) /\ ~IsDir(call[h].filePath)
        /\ call[h].result.success

Range(seq) == {seq[i] : i \in 1..Len(seq)}

\* C5: when a precache task is done, its failure log holds exactly the files
\* whose outcome was processing-error or not-found, and every other file it
\* visited has its derivative in the cache.
C5_PrecacheCompleteness ==
    \A w \in Walkers :
        pc[w] = "wdone" =>
            /\ Range(walk[w].log) =
                  {v.path : v \in {x \in walk[w].visited : x.outcome # "success"}}
            /\ \A v \in walk[w].visited : v.outcome = "success" => IsFile(v.dest)

\* C6: a read request invokes getOrCreateCacheFile only for a path that is a
\* strict descendant of its own collection's source root.
C6_ReadsOnlyOwnSourceRoot ==
    \A h \in Handlers :
        (req[h].method = "GET" /\ Invoked(h))
            => StrictDescendant(rootPathOf(req[h].coll), call[h].filePath)

\* C7: a file disappears only in a step of the delete route, and then it is
\* a file strictly inside the cache root of the request's collection.
C7_DeleteOnlyInsideCacheRoot ==
    [][\A p \in (DOMAIN files) \ (DOMAIN files') :
         \E h \in Handlers :
            /\ req'[h].method = "DELETE" /\ nreq' = nreq + 1
            /\ resp'[h].file = p
            /\ StrictDescendant(cachePathOf(req'[h].coll), p)
            /\ ~StrictDescendant(imagesFolder, p)]_vars

\* A delete request has removed a derivative.
C7_Witness ==
    \E h \in Handlers :
        /\ Handled(h, "DELETE") /\ resp[h].status = 200
        /\ resp[h].saw = "full" /\ ~IsFile(resp[h].file)

\* The header carries the configured secret as a bearer token.
CarriesSecret(auth, key) == key.defined /\ auth = <<"Bearer", key.val>>

\* C8: a delete request whose header does not carry the configured secret is
\* answered 401, whatever the configuration of the token.
C8_UnauthorizedIs401 ==
    \A h \in Handlers :
        (Handled(h, "DELETE") /\ ~CarriesSecret(req[h].auth, apiKey))
            => resp[h].status = 401

\* C9: a read request whose format option is present and not png or jpg is
\* answered with a client error.
C9_BadFormatIsClientError ==
    \A h \in Handlers :
        (Handled(h, "GET") /\ req[h].query # <<>> /\ req[h].query[1] \notin validTypes)
            => resp[h].status \in 400..499

\* A read whose source cannot be read and whose derivative is not cached.
MissingSource(h) ==
    /\ Handled(h, "GET") /\ Invoked(h)
    /\ ~Readable(call[h].filePath)
    /\ ~Readable(destPath(h))

RequestPath(r) == JoinAbs(rootPathOf(r.coll), <<r.f1, r.f2, r.filename>>)

\* The read request h has finished handling failed the containment test.
TraversalHandled(h) ==
    /\ Handled(h, "GET")
    /\ ~ReadGuard(rootPathOf(req[h].coll), RequestPath(req[h]))

\* C11: a read request whose path fails the containment test has, by the time
\* its handler is finished, been answered 400 or 404, and
\* getOrCreateCacheFile was not invoked for it.
C11_TraversalIsRejected ==
    \A h \in Handlers :
        TraversalHandled(h) =>
            /\ resp[h].status \in {400, 404}
            /\ ~Invoked(h)

\* The derivative of the image a/b/logo.png of Logos, and the two read
\* requests with format jpg that lead to it: one names the derivative, the
\* other names the source.
LogoDerivative == cachePathOf(Logos) \o <<A, B, LogoJpg>>
GetDerivativeName == Request("GET", Logos, A, B, LogoJpg, <<"jpg">>, <<>>)
GetSourceName == Request("GET", Logos, A, B, LogoPng, <<"jpg">>, <<>>)

\* Handler h has answered the read request r and no request has come since;
\* the source a/b/logo.png is a readable image and no write has failed.
Served(h, r) ==
    /\ Latest(h) /\ Handled(h, "GET") /\ req[h] = r
    /\ CanDecode(SrcA) /\ faults = 0

\* The answer is 200 with the complete derivative of the source, which is in
\* the cache at the mirrored path.
AnsweredFromCache(h) ==
    /\ resp[h].status = 200
    /\ resp[h].file = LogoDerivative
    /\ resp[h].saw = "full"
    /\ resp[h].data = Encode(SrcA, "jpg")
    /\ IsFile(LogoDerivative)

\* C12 as claimed: the request for logo.jpg with type=jpg, with the source
\* logo.png present, is answered 200 from a cache file it creates at
\* cache/Logos/a/b/logo.jpg, and a second identical request is answered 200
\* without creation work.
C12_DerivativeNameCreates ==
    \A h \in Handlers :
        /\ Served(h, GetDerivativeName) => AnsweredFromCache(h)
        /\ (TwiceInSequence(h) /\ Served(h, GetDerivativeName))
              => call[h].work = {}

\* C12 amended: the same for the request that names the source, logo.png
\* with type=jpg.
C12_SourceNameCreates ==
    \A h \in Handlers :
        /\ Served(h, GetSourceName) => AnsweredFromCache(h)
        /\ (TwiceInSequence(h) /\ Served(h, GetSourceName))
              => call[h].work = {}

\* The first request for logo.png with type=jpg wrote the derivative and the
\* second was answered from it.
C12_Witness ==
    \E h \in Handlers :
        /\ TwiceInSequence(h) /\ Served(h, GetSourceName)
        /\ call[Other(h)].work = {"mkdir", "encode", "open", "write"}
        /\ call[h].hit = "full" /\ call[h].work = {}
        /\ AnsweredFromCache(h) /\ resp[Other(h)] = resp[h]

(***************************************************************************)
(* isSubFile on its own (lines 228-231): one evaluation on a root and an   *)
(* absolute path.  Both are normalised absolute paths, as the results of   *)
(* path.join the routes pass in (lines 154-155, 159, 193); no file of      *)
(* either need exist.  The names include a hidden file (.a) and a name     *)
(* that begins with two dots without being the parent marker (..foo).     *)
(***************************************************************************)
MaxDepth == 3
DotA == <<Dot, "a">>
GuardNames == {A, B, DotA, DotDotFoo}
GuardPaths == UNION {[1..n -> GuardNames] : n \in 0..MaxDepth}
GuardRoots == {<<>>, <<A>>, <<A, B>>, <<B>>}

InitGuard ==
    /\ apiKey = KeySet("s3cret")
    /\ files = SourceTree({}, <<>>)
    /\ dirs = StartDirs
    /\ faults = 0
    /\ nreq = 0
    /\ pc = [p \in Procs |-> IF p \in Handlers THEN "idle" ELSE "wstart"]
    /\ req = [h \in Handlers |-> NoReq]
    /\ resp = [h \in Handlers |-> NoResp]
    /\ call = [p \in Procs |-> NoCall]
    /\ walk = [w \in Walkers |-> NoWalk]
    /\ \E root \in GuardRoots, absPath \in GuardPaths :
         guard = [NoGuard EXCEPT !.root = root, !.absPath = absPath]

\* Lines 228-231: the call returns.
IsSubFileCall ==
    /\ ~guard.returned
    /\ guard' = [guard EXCEPT !.returned = TRUE,
                              !.result = isSubFile(guard.root, guard.absPath)]
    /\ UNCHANGED <<apiKey, files, dirs, faults, nreq, pc, req, resp, call, walk>>

NextGuard == IsSubFileCall

SpecGuard == InitGuard /\ [][NextGuard]_vars

\* C13: isSubFile(r, p) is true if and only if p is lexically a proper
\* descendant of r, for segment names that merely begin with dots too.
C13_GuardIsProperDescendant ==
    guard.returned =>
        (guard.result <=> StrictDescendant(guard.root, guard.absPath))

(***************************************************************************)
(* Two source files of one directory that differ only in extension,        *)
(* a/b/logo.png and a/b/logo.jpg, each with its own bytes: the Logos        *)
(* precache task walks them while requests with format jpg read them.      *)
(***************************************************************************)
SrcTwin == rootPathOf(Logos) \o <<A, B, LogoJpg>>
TwinFiles ==
    (SrcA :> File(Image("logo.png"), TRUE, TRUE))
    @@ (SrcTwin :> File([fmt |-> "jpg", of |-> "logo.jpg"], TRUE, TRUE))
TwinRequests == {GetSourceName, GetDerivativeName}

InitTwins ==
    /\ apiKey = KeySet("s3cret")
    /\ files = TwinFiles
    /\ dirs = StartDirs
    /\ InitProcs

TwinGet(h) ==
    /\ nreq < MaxRequests
    /\ FirstIdle(h)
    /\ \E r \in TwinRequests : Get(h, r)

NextTwins ==
    \/ \E h \in Handlers : TwinGet(h)
    \/ \E h \in Handlers : Respond(h)
    \/ \E p \in Handlers \cup {"wLogos"} : GetOrCreateStep(p)
    \/ WalkerStep("wLogos")

SpecTwins == InitTwins /\ [][NextTwins]_vars

\* C14: two invocations with format jpg for distinct source files of one
\* collection never have the same cache path, and an invocation that ends
\* with success has returned a file holding a derivative of its own source.
C14_OneDerivativePerSource ==
    /\ \A p, q \in Procs :
         (/\ Invoked(p) /\ Invoked(q)
          /\ call[p].type = "jpg" /\ call[q].type = "jpg"
          /\ call[p].cachePath = call[q].cachePath
          /\ call[p].filePath # call[q].filePath)
            => destPath(p) # destPath(q)
    /\ \A p \in Procs :
         (/\ Settled(p) /\ call[p].type = "jpg"
          /\ call[p].result.state = "resolved" /\ call[p].result.success
          /\ IsFile(call[p].result.filePath))
            => files[call[p].result.filePath].data.of
                  = files[call[p].filePath].data.of

\* The regular files of the tree a precache task walks.
TreeFiles(w) ==
    {q \in DOMAIN files : StrictDescendant(rootPathOf(WalkFolders(w)), q)}

\* The task ended with a rejection raised while reading a sub-directory of
\* its tree.
SubdirFailure(w) ==
    /\ pc[w] = "wcrashed"
    /\ StrictDescendant(rootPathOf(WalkFolders(w)), walk[w].next)

\* C15: a precache task never ends with an unhandled failure because one
\* sub-directory could not be read, and a task that is done has invoked
\* getOrCreateCacheFile for every regular file of its tree.
C15_WalkRunsToCompletion ==
    \A w \in Walkers :
        /\ ~SubdirFailure(w)
        /\ pc[w] = "wdone" => TreeFiles(w) = {v.path : v \in walk[w].visited}

\* A complete derivative is in the cache at path p.
EntryExists(p) ==
    /\ StrictDescendant(cacheFolder, p)
    /\ IsFile(p) /\ files[p].full

\* This step is an authorized delete request that removes the file at p.
DeletedInStep(p) ==
    \E h \in Handlers :
        /\ nreq' = nreq + 1 /\ req'[h].method = "DELETE"
        /\ resp'[h].status = 200 /\ resp'[h].file = p
        /\ p \notin DOMAIN files'

\* C16: a complete cache entry is left as it is, bytes included, by every
\* step that is not an authorized delete of it.
C16_EntryKeptUntilDeleted ==
    [][\A p \in DOMAIN files :
         EntryExists(p) =>
            \/ p \in DOMAIN files' /\ files'[p] = files[p]
            \/ DeletedInStep(p)]_vars

\* The path of read request r fails the test isSubFile makes against the
\* images folder.
FailsContainment(r) == ~isSubFile(imagesFolder, RequestPath(r))
\* The format option of read request r is present, non-empty and neither
\* png nor jpg.
BadFormat(r) ==
    /\ r.query # <<>> /\ r.query[1] # ""
    /\ r.query[1] \notin validTypes
\* r is a read request the route turns away.
RejectedRead(r) == r.method = "GET" /\ (FailsContainment(r) \/ BadFormat(r))

\* C17: the step that receives a read request that fails the containment
\* test or the format validation changes no file and no directory, and such
\* a request never has getOrCreateCacheFile invoked for it.
C17_RejectedReadHasNoEffect ==
    [][\A h \in Handlers :
         RejectedRead(req'[h]) =>
            /\ call'[h] = NoCall /\ pc'[h] = "idle"
            /\ req[h] # req'[h] => (files' = files /\ dirs' = dirs)]_vars

\* A read of an existing source with the format gif has been turned away.
C17_Witness ==
    \E h \in Handlers :
        /\ Handled(h, "GET") /\ BadFormat(req[h]) /\ ~FailsContainment(req[h])
        /\ IsFile(RequestPath(req[h]))
        /\ ~Invoked(h)

(***************************************************************************)
(* Read requests for one image of Logos, concurrent with the Logos         *)
(* precache task, and no delete request.                                   *)
(***************************************************************************)
RaceRequests == {r \in CacheRequests : r.method = "GET"}

RaceGet(h) ==
    /\ nreq < MaxRequests
    /\ FirstIdle(h)
    /\ \E r \in RaceRequests : Get(h, r)

NextRace ==
    \/ \E h \in Handlers : RaceGet(h)
    \/ \E h \in Handlers : Respond(h)
    \/ \E p \in Handlers \cup {"wLogos"} : GetOrCreateStep(p)
    \/ WalkerStep("wLogos")

SpecRace == Init /\ [][NextRace]_vars

\* The invocation of process p saw a cache miss for a readable source and
\* went on to create the derivative.
Missed(p) == Invoked(p) /\ call[p].type = "jpg" /\ "mkdir" \in call[p].work
\* The invocation of process p is over.
Finished(p) == Invoked(p) /\ pc[p] \notin CachePcs

\* The invocations of p and q, for one key and an encodable source, both saw
\* a cache miss and are both over, and no third invocation for the key is
\* under way.
RaceOver(p, q) ==
    /\ p # q /\ Missed(p) /\ Missed(q)
    /\ destPath(p) = destPath(q) /\ call[p].filePath = call[q].filePath
    /\ CanDecode(call[p].filePath)
    /\ Finished(p) /\ Finished(q)
    /\ \A r \in Procs \ {p, q} :
         (Invoked(r) /\ pc[r] \in CachePcs) => destPath(r) # destPath(p)

\* Both invocations resolved with success and the one cache path, and the
\* cache file holds the complete re-encoded source.
SameDerivative(p, q) ==
    /\ call[p].result = Resolved(TRUE, destPath(p))
    /\ call[q].result = call[p].result
    /\ IsFile(destPath(p))
    /\ files[destPath(p)].full
    /\ files[destPath(p)].data = [fmt |-> "jpg", of |-> files[call[p].filePath].data.of]

ReadDest(r) ==
    DestPath(cachePathOf(r.coll),
             Relative(rootPathOf(r.coll), RequestPath(r)), "jpg")

\* Handler h has handled an authorized delete request whose cache path lies
\* strictly inside the cache root of its collection.
DeleteInsideHandled(h) ==
    /\ Handled(h, "DELETE")
    /\ Authorized(req[h].auth, apiKey)
    /\ StrictDescendant(cachePathOf(req[h].coll), ReadDest(req[h]))

\* C19: such a delete is answered 200 whether or not the derivative was
\* there, the path it acted on is the one a jpg read of the same request
\* path uses, and afterwards a jpg read finds a cache miss there.
C19_DeletePostcondition ==
    \A h \in Handlers :
        DeleteInsideHandled(h) =>
            /\ resp[h].status = 200
            /\ resp[h].file = ReadDest(req[h])
            /\ ~Readable(ReadDest(req[h]))

\* The files and directories a step creates, and the files it writes to.
TouchedInStep ==
    {p \in DOMAIN files' : p \notin DOMAIN files \/ files'[p] # files[p]}
    \cup (dirs' \ dirs)

\* C20: every file and directory a step creates or writes is strictly inside
\* the cache root of the collection of a read request that is being served.
C20_ReadWritesOwnCacheRoot ==
    [][\A p \in TouchedInStep :
         \E h \in Handlers :
            /\ req[h].method = "GET" /\ pc[h] \in CachePcs
            /\ StrictDescendant(cachePathOf(req[h].coll), p)]_vars

====
